---- MODULE Spec2Model ----
(***************************************************************************)
(* Schema introspection of the tsm1 storage engine:                        *)
(* Engine.MeasurementNames merges the measurement names found in the TSM   *)
(* files of the FileStore with those found in the write Cache, for one     *)
(* (orgID, bucketID) namespace and one time range.                         *)
(*                                                                         *)
(* Byte strings are sequences of byte values.  The key codec, the TSM      *)
(* file cursor, the cache entry accessors and the iterator constructor     *)
(* live in other packages of the repository; they are modelled from the    *)
(* written specification of the engine.                                    *)
(*                                                                         *)
(* Two further parts of the repository are covered, each under its own     *)
(* specification: the configs of the influx command (Configs.Switch,       *)
(* ParseActiveConfig, ParsePreviousActive) and                             *)
(* AuthedURMService.DeleteUserResourceMapping of package tenant.           *)
(***************************************************************************)
EXTENDS Integers, Sequences, FiniteSets, TLC

VARIABLES
    files,      \* e.FileStore: the set of TSM files
    cache,      \* e.Cache: the set of cache entries
    query,      \* orgID, bucketID, start, end of the call
    op,         \* the method called
    pc,         \* "idle", "files", "cache", "done"
    ctxDone,    \* ctx.Done() is closed
    pending,    \* files ForEachFile has not yet handed to the callback
    cpending,   \* entries ApplyEntryFn has not yet handed to the callback
    tsmValues,  \* the names found so far
    stats,      \* the running cursors.CursorStats
    canceled,   \* the flag the callback sets on cancellation
    applyErr,   \* what ApplyEntryFn returned
    result,     \* the StringIterator returned
    err,        \* the error returned
    fileLog,    \* history: the callback's outcome for each file visited
    cacheLog,   \* history: the cache entries visited
    prev,       \* history: the previous call's result, for repeated calls
    configs,    \* the Configs map held by the influx command
    cfgPrev,    \* history: the Configs map before the last Switch
    switchName, \* history: the name the last Switch was given
    switchErr,  \* what the last Switch returned
    parseOut,   \* what the last ParseActiveConfig / ParsePreviousActive returned
    urmStore,   \* the mappings held by the underlying mapping service
    urmList,    \* the mappings FindUserResourceMappings returned
    urmIdx,     \* the position of the loop over urmList
    urmPc,      \* "idle", "loop", "done"
    urmErr,     \* the error DeleteUserResourceMapping returned
    urmLog      \* history: the calls made on the collaborators, in order


(***************************************************************************)
(* Bounds of the model.                                                    *)
(***************************************************************************)
\* the FileStore snapshot holds at most MaxFiles TSM files
MaxFiles == 2
\* the Cache holds at most MaxEntries entries
MaxEntries == 2

(***************************************************************************)
(* Bytes with a structural meaning in a composite key.                     *)
(***************************************************************************)
SEP == 0
COMMA == 44
BACKSLASH == 92

(***************************************************************************)
(* Generic helpers on byte strings.                                        *)
(***************************************************************************)
Min2(a, b) == IF a <= b THEN a ELSE b

\* bytes.HasPrefix / strings.HasPrefix
HasPrefix(s, p) ==
    /\ Len(p) <= Len(s)
    /\ SubSeq(s, 1, Len(p)) = p

\* bytes.Compare(a, b) < 0: byte-wise lexicographic order
RECURSIVE BytesLess(_, _)
BytesLess(a, b) ==
    IF Len(b) = 0 THEN FALSE
    ELSE IF Len(a) = 0 THEN TRUE
    ELSE IF a[1] < b[1] THEN TRUE
    ELSE IF a[1] > b[1] THEN FALSE
    ELSE BytesLess(Tail(a), Tail(b))

BytesLeq(a, b) == a = b \/ BytesLess(a, b)

(***************************************************************************)
(* Key codec.                                                              *)
(***************************************************************************)
\* tsdb.EncodeName: the fixed-width concatenation of the two identifiers
\* (one byte stands for each 8-byte identifier).
EncodeName(orgID, bucketID) == <<orgID, bucketID>>

\* models.EscapeMeasurement: commas are escaped with a backslash.
RECURSIVE EscapeMeasurement(_)
EscapeMeasurement(b) ==
    IF Len(b) = 0 THEN <<>>
    ELSE IF b[1] = COMMA THEN <<BACKSLASH, COMMA>> \o EscapeMeasurement(Tail(b))
    ELSE <<b[1]>> \o EscapeMeasurement(Tail(b))

\* the namespace prefix of a query, lines 24-27
Prefix(orgID, bucketID) == EscapeMeasurement(EncodeName(orgID, bucketID))

\* index of the first separator byte of a key, 0 when there is none
RECURSIVE IndexOfSep(_, _)
IndexOfSep(k, i) ==
    IF i > Len(k) THEN 0
    ELSE IF k[i] = SEP THEN i
    ELSE IndexOfSep(k, i + 1)

\* SeriesAndFieldFromCompositeKey: split at the separator.  A key without a
\* separator has no series part from which a measurement can be taken.
SeriesAndFieldFromCompositeKey(sfkey) ==
    LET i == IndexOfSep(sfkey, 1) IN
    IF i = 0 THEN [series |-> <<>>, field |-> <<>>]
    ELSE [series |-> SubSeq(sfkey, 1, i - 1),
          field |-> SubSeq(sfkey, i + 1, Len(sfkey))]

\* index in k of the byte that follows n logical (unescaped) bytes from i
RECURSIVE SkipEscaped(_, _, _)
SkipEscaped(k, i, n) ==
    IF n = 0 \/ i > Len(k) THEN i
    ELSE IF k[i] = BACKSLASH THEN SkipEscaped(k, i + 2, n - 1)
    ELSE SkipEscaped(k, i + 1, n - 1)

\* the bytes of k from i up to the first unescaped comma
RECURSIVE UpToComma(_, _)
UpToComma(k, i) ==
    IF i > Len(k) THEN <<>>
    ELSE IF k[i] = COMMA THEN <<>>
    ELSE IF k[i] = BACKSLASH /\ i < Len(k)
         THEN <<k[i], k[i + 1]>> \o UpToComma(k, i + 2)
    ELSE <<k[i]>> \o UpToComma(k, i + 1)

\* models.ParseMeasurement: the first segment of the series key after the
\* fixed-width namespace, up to the first unescaped comma.
ParseMeasurement(key) ==
    UpToComma(key, SkipEscaped(key, 1, Len(EncodeName(1, 1))))

(***************************************************************************)
(* The data the engine reads.                                              *)
(***************************************************************************)
\* identifiers: the namespaces are (1,1) < (1,2) < (2,2)
NsLow == [org |-> 1, bucket |-> 1]
NsMid == [org |-> 1, bucket |-> 2]
NsHigh == [org |-> 2, bucket |-> 2]

\* measurement names, as byte strings: "c" < "cm" < "d" < "m" < "n"
NameC == <<99>>
NameCM == <<99, 109>>
NameD == <<100>>
NameM == <<109>>
NameN == <<110>>

\* a tag set ",h" and two field keys
TagH == <<COMMA, 104>>
FieldF == <<102>>
FieldG == <<103>>

\* a well-formed composite key: prefix, series key, separator, field key
CompositeKey(ns, series, field) ==
    Prefix(ns.org, ns.bucket) \o series \o <<SEP>> \o field

\* malformed keys: one without a separator, one with an empty measurement
KeyNoSep(ns, series) == Prefix(ns.org, ns.bucket) \o series
KeyNoName(ns, field) == Prefix(ns.org, ns.bucket) \o <<SEP>> \o field

\* one key of a TSM file with the timestamps of its values
IndexEntry(k, ts) == [key |-> k, times |-> ts]

\* The TSM files a FileStore may hold.  Keys are in ascending byte order.
\* The query window used throughout is (1, 3].
FileA ==
    <<IndexEntry(CompositeKey(NsMid, NameC, FieldF), {2}),
      IndexEntry(CompositeKey(NsMid, NameM, FieldF), {3})>>
FileB ==
    <<IndexEntry(CompositeKey(NsMid, NameD, FieldF), {2})>>
FileC ==
    <<IndexEntry(KeyNoName(NsMid, FieldG), {2}),
      IndexEntry(CompositeKey(NsMid, NameC, FieldG), {0}),
      IndexEntry(CompositeKey(NsHigh, NameN, FieldF), {2})>>
FileD ==
    <<IndexEntry(CompositeKey(NsLow, NameN, FieldF), {2}),
      IndexEntry(KeyNoSep(NsMid, NameD), {2}),
      IndexEntry(CompositeKey(NsMid, NameCM \o TagH, FieldF), {1}),
      IndexEntry(CompositeKey(NsMid, NameM, FieldG), {3})>>
FileE ==
    <<IndexEntry(CompositeKey(NsHigh, NameN, FieldF), {2})>>
FileF ==
    <<IndexEntry(CompositeKey(NsMid, NameCM, FieldF), {4, 5})>>

AllFiles == {FileA, FileB, FileC, FileD, FileE, FileF}

\* one entry of the cache: its key and the timestamps of its values
CacheEntry(k, ts) == [key |-> k, values |-> ts]

AllEntries ==
    { CacheEntry(CompositeKey(NsMid, NameC, FieldF), {2}),
      CacheEntry(CompositeKey(NsMid, NameC, FieldG), {0, 4}),
      CacheEntry(CompositeKey(NsMid, NameCM \o TagH, FieldF), {3}),
      CacheEntry(CompositeKey(NsHigh, NameN, FieldF), {2}),
      CacheEntry(KeyNoName(NsMid, FieldF), {2}),
      CacheEntry(KeyNoSep(NsMid, NameM), {2}),
      CacheEntry(CompositeKey(NsMid, NameD, FieldF), {1}) }

\* the queries made
Queries ==
    { [org |-> NsMid.org, bucket |-> NsMid.bucket, start |-> 1, end |-> 3],
      [org |-> NsHigh.org, bucket |-> NsHigh.bucket, start |-> 1, end |-> 3] }

(***************************************************************************)
(* cursors.CursorStats and the result iterator.                            *)
(***************************************************************************)
\* sizeof timestamp, line 96
TimestampSize == 8

ZeroStats == [ScannedValues |-> 0, ScannedBytes |-> 0]

\* CursorStats.Add
StatsAdd(a, b) ==
    [ScannedValues |-> a.ScannedValues + b.ScannedValues,
     ScannedBytes |-> a.ScannedBytes + b.ScannedBytes]

\* the nil StringIterator
NilIterator == [nil |-> TRUE, names |-> <<>>, stats |-> ZeroStats]

\* cursors.NewStringSliceIteratorWithStats: always an iterator object; a nil
\* slice is the empty sequence.
NewStringSliceIteratorWithStats(s, st) == [nil |-> FALSE, names |-> s, stats |-> st]

NoError == "nil"
ErrCanceled == "context canceled"
ErrCache == "cache error"

(***************************************************************************)
(* TSMFile: the operations of a file the engine uses.                      *)
(***************************************************************************)
FileTimes(f) == UNION { f[i].times : i \in 1..Len(f) }

\* TSMFile.OverlapsTimeRange: the file's [min, max] time meets [start, end]
OverlapsTimeRange(f, start, end) ==
    /\ \E t \in FileTimes(f) : t <= end
    /\ \E t \in FileTimes(f) : t >= start

\* TSMFile.OverlapsKeyPrefixRange: the file's first and last key, cut to the
\* length of the bounds, enclose the range [min, max]
OverlapsKeyPrefixRange(f, min, max) ==
    LET minKey == SubSeq(f[1].key, 1, Min2(Len(f[1].key), Len(min)))
        maxKey == SubSeq(f[Len(f)].key, 1, Min2(Len(f[Len(f)].key), Len(max)))
    IN  BytesLeq(minKey, max) /\ BytesLeq(min, maxKey)

\* TSMFile.TimeRangeIterator: a cursor over the keys of the file from the
\* first key that is not below the prefix, in key order
TimeRangeIterator(f, prefix) ==
    SelectSeq(f, LAMBDA e : BytesLeq(prefix, e.key))

\* TimeRangeIterator.HasData: the key has a value in the window (start, end]
HasData(e, start, end) == \E t \in e.times : start < t /\ t <= end

\* what one HasData call adds to TimeRangeIterator.Stats: the values of the
\* key it examined, at timestamp width
HasDataCost(e) ==
    [ScannedValues |-> Cardinality(e.times),
     ScannedBytes |-> Cardinality(e.times) * TimestampSize]

(***************************************************************************)
(* entry.values of a cache entry.                                          *)
(***************************************************************************)
\* Values.Len
ValuesLen(e) == Cardinality(e.values)

\* Values.Contains: some value lies in the window (start, end]
ValuesContains(e, start, end) == \E t \in e.values : start < t /\ t <= end

(***************************************************************************)
(* Engine.MeasurementNames, lines 23-111.                                  *)
(***************************************************************************)
\* for val := range tsmValues, lines 104-107: a map is ranged over in an
\* unspecified order, so vals may be any ordering of the names
MapKeys(S) ==
    { s \in [1..Cardinality(S) -> S] : \A i, j \in DOMAIN s : s[i] = s[j] => i = j }

\* insertion of one string into an ascending sequence
RECURSIVE InsertSorted(_, _)
InsertSorted(x, s) ==
    IF Len(s) = 0 THEN <<x>>
    ELSE IF BytesLeq(x, s[1]) THEN <<x>> \o s
    ELSE <<s[1]>> \o InsertSorted(x, Tail(s))

\* a sort into descending order
RECURSIVE SortDescending(_)
SortDescending(s) ==
    IF Len(s) = 0 THEN <<>>
    ELSE LET t == SortDescending(Tail(s))
             k == Cardinality({ i \in DOMAIN t : BytesLess(s[1], t[i]) })
         IN  SubSeq(t, 1, k) \o <<s[1]>> \o SubSeq(t, k + 1, Len(t))

\* sort.Strings, line 108
RECURSIVE SortStrings(_)
SortStrings(s) ==
    IF Len(s) = 0 THEN <<>>
    ELSE InsertSorted(s[1], SortStrings(Tail(s)))

\* KeyLoop without the test of line 47: keys of other namespaces are read too
RECURSIVE KeyLoopNoPrefix(_, _, _, _, _, _, _)
KeyLoopNoPrefix(keys, i, prefix, start, end, tsm, cst) ==
    IF i > Len(keys) THEN [tsmValues |-> tsm, cursorStats |-> cst]
    ELSE LET key == SeriesAndFieldFromCompositeKey(keys[i].key).series
             name == ParseMeasurement(key)
         IN  IF Len(name) = 0
                THEN KeyLoopNoPrefix(keys, i + 1, prefix, start, end, tsm, cst)
             ELSE IF name \in tsm
                THEN KeyLoopNoPrefix(keys, i + 1, prefix, start, end, tsm, cst)
             ELSE KeyLoopNoPrefix(keys, i + 1, prefix, start, end,
                          IF HasData(keys[i], start, end) THEN tsm \cup {name} ELSE tsm,
                          StatsAdd(cst, HasDataCost(keys[i])))

\* KeyLoop that leaves the loop at a key without a measurement
RECURSIVE KeyLoopStopAtMalformed(_, _, _, _, _, _, _)
KeyLoopStopAtMalformed(keys, i, prefix, start, end, tsm, cst) ==
    IF i > Len(keys) THEN [tsmValues |-> tsm, cursorStats |-> cst]
    ELSE IF ~HasPrefix(keys[i].key, prefix)
         THEN [tsmValues |-> tsm, cursorStats |-> cst]
    ELSE LET key == SeriesAndFieldFromCompositeKey(keys[i].key).series
             name == ParseMeasurement(key)
         IN  IF Len(name) = 0
                THEN [tsmValues |-> tsm, cursorStats |-> cst]
             ELSE IF name \in tsm
                THEN KeyLoopStopAtMalformed(keys, i + 1, prefix, start, end, tsm, cst)
             ELSE KeyLoopStopAtMalformed(keys, i + 1, prefix, start, end,
                          IF HasData(keys[i], start, end) THEN tsm \cup {name} ELSE tsm,
                          StatsAdd(cst, HasDataCost(keys[i])))

\* the loop over the keys of one file, lines 45-66: i is the position of the
\* cursor in the keys it yields, tsm the names found, cst the cursor's stats
RECURSIVE KeyLoop(_, _, _, _, _, _, _)
KeyLoop(keys, i, prefix, start, end, tsm, cst) ==
    IF i > Len(keys) THEN [tsmValues |-> tsm, cursorStats |-> cst]
    ELSE IF ~HasPrefix(keys[i].key, prefix)
         THEN [tsmValues |-> tsm, cursorStats |-> cst]
    ELSE LET key == SeriesAndFieldFromCompositeKey(keys[i].key).series
             name == ParseMeasurement(key)
         IN  IF Len(name) = 0
                THEN KeyLoop(keys, i + 1, prefix, start, end, tsm, cst)
             ELSE IF name \in tsm
                THEN KeyLoop(keys, i + 1, prefix, start, end, tsm, cst)
             ELSE KeyLoop(keys, i + 1, prefix, start, end,
                          IF HasData(keys[i], start, end) THEN tsm \cup {name} ELSE tsm,
                          StatsAdd(cst, HasDataCost(keys[i])))

\* FileFn adding the cursor's statistics only when the file gave a new name
FileFnStatsIfFound(tsm, st, f, prefix, start, end) ==
    IF OverlapsTimeRange(f, start, end) /\ OverlapsKeyPrefixRange(f, prefix, prefix)
    THEN LET r == KeyLoop(TimeRangeIterator(f, prefix), 1, prefix, start, end,
                          tsm, ZeroStats)
         IN  [tsmValues |-> r.tsmValues,
              stats |-> IF r.tsmValues = tsm THEN st ELSE StatsAdd(st, r.cursorStats),
              overlaps |-> TRUE,
              cursorStats |-> r.cursorStats]
    ELSE [tsmValues |-> tsm, stats |-> st, overlaps |-> FALSE,
          cursorStats |-> ZeroStats]

\* FileFn scanning with the window closed at start, [start, end]
FileFnClosedStart(tsm, st, f, prefix, start, end) ==
    IF OverlapsTimeRange(f, start, end) /\ OverlapsKeyPrefixRange(f, prefix, prefix)
    THEN LET r == KeyLoop(TimeRangeIterator(f, prefix), 1, prefix, start - 1, end,
                          tsm, ZeroStats)
         IN  [tsmValues |-> r.tsmValues,
              stats |-> StatsAdd(st, r.cursorStats),
              overlaps |-> TRUE,
              cursorStats |-> r.cursorStats]
    ELSE [tsmValues |-> tsm, stats |-> st, overlaps |-> FALSE,
          cursorStats |-> ZeroStats]

\* the body of the ForEachFile callback after the context check, lines 43-69
FileFn(tsm, st, f, prefix, start, end) ==
    IF OverlapsTimeRange(f, start, end) /\ OverlapsKeyPrefixRange(f, prefix, prefix)
    THEN LET r == KeyLoop(TimeRangeIterator(f, prefix), 1, prefix, start, end,
                          tsm, ZeroStats)
         IN  [tsmValues |-> r.tsmValues,
              stats |-> StatsAdd(st, r.cursorStats),
              overlaps |-> TRUE,
              cursorStats |-> r.cursorStats]
    ELSE [tsmValues |-> tsm, stats |-> st, overlaps |-> FALSE,
          cursorStats |-> ZeroStats]

\* CanceledReturn returning no iterator
CanceledReturnNil(tsm, st) == NilIterator

\* CanceledReturn returning the names found so far
CanceledReturnNames(tsm, st) ==
    NewStringSliceIteratorWithStats(
        SortStrings(CHOOSE s \in MapKeys(tsm) : TRUE), st)

\* CanceledReturn dropping the statistics
CanceledReturnNoStats(tsm, st) == NewStringSliceIteratorWithStats(<<>>, ZeroStats)

\* the return on cancellation, lines 72-74
CanceledReturn(tsm, st) == NewStringSliceIteratorWithStats(<<>>, st)

\* CacheFn without the Contains test of line 98
CacheFnNoContains(tsm, st, e, prefix, start, end) ==
    IF ~HasPrefix(e.key, prefix) THEN [tsmValues |-> tsm, stats |-> st]
    ELSE LET key == SeriesAndFieldFromCompositeKey(e.key).series
             name == ParseMeasurement(key)
         IN  IF Len(name) = 0 THEN [tsmValues |-> tsm, stats |-> st]
             ELSE IF name \in tsm THEN [tsmValues |-> tsm, stats |-> st]
             ELSE [tsmValues |-> tsm \cup {name},
                   stats |->
                       [ScannedValues |-> st.ScannedValues + ValuesLen(e),
                        ScannedBytes |-> st.ScannedBytes + ValuesLen(e) * TimestampSize]]

\* CacheFn charging an entry before asking whether its measurement is known
CacheFnChargeFound(tsm, st, e, prefix, start, end) ==
    IF ~HasPrefix(e.key, prefix) THEN [tsmValues |-> tsm, stats |-> st]
    ELSE LET key == SeriesAndFieldFromCompositeKey(e.key).series
             name == ParseMeasurement(key)
         IN  IF Len(name) = 0 THEN [tsmValues |-> tsm, stats |-> st]
             ELSE [tsmValues |->
                       IF ValuesContains(e, start, end) THEN tsm \cup {name} ELSE tsm,
                   stats |->
                       [ScannedValues |-> st.ScannedValues + ValuesLen(e),
                        ScannedBytes |-> st.ScannedBytes + ValuesLen(e) * TimestampSize]]

\* CacheFn in which every entry overwrites what is known of its measurement
CacheFnOverwrite(tsm, st, e, prefix, start, end) ==
    IF ~HasPrefix(e.key, prefix) THEN [tsmValues |-> tsm, stats |-> st]
    ELSE LET key == SeriesAndFieldFromCompositeKey(e.key).series
             name == ParseMeasurement(key)
         IN  IF Len(name) = 0 THEN [tsmValues |-> tsm, stats |-> st]
             ELSE [tsmValues |->
                       IF ValuesContains(e, start, end)
                       THEN tsm \cup {name} ELSE tsm \ {name},
                   stats |->
                       [ScannedValues |-> st.ScannedValues + ValuesLen(e),
                        ScannedBytes |-> st.ScannedBytes + ValuesLen(e) * TimestampSize]]

\* the ApplyEntryFn callback, lines 79-102
CacheFn(tsm, st, e, prefix, start, end) ==
    IF ~HasPrefix(e.key, prefix) THEN [tsmValues |-> tsm, stats |-> st]
    ELSE LET key == SeriesAndFieldFromCompositeKey(e.key).series
             name == ParseMeasurement(key)
         IN  IF Len(name) = 0 THEN [tsmValues |-> tsm, stats |-> st]
             ELSE IF name \in tsm THEN [tsmValues |-> tsm, stats |-> st]
             ELSE [tsmValues |->
                       IF ValuesContains(e, start, end) THEN tsm \cup {name} ELSE tsm,
                   stats |->
                       [ScannedValues |-> st.ScannedValues + ValuesLen(e),
                        ScannedBytes |-> st.ScannedBytes + ValuesLen(e) * TimestampSize]]

\* FinalReturn looking at the context once more
FinalReturnChecksContext(vals, st) ==
    IF ctxDone
    THEN NewStringSliceIteratorWithStats(<<>>, st)
    ELSE NewStringSliceIteratorWithStats(SortStrings(vals), st)

\* FinalReturn without the sort
FinalReturnUnsorted(vals, st) == NewStringSliceIteratorWithStats(vals, st)

\* the final return, lines 108-110, of the names collected in vals
FinalReturn(vals, st) ==
    NewStringSliceIteratorWithStats(SortStrings(vals), st)

\* ReturnError handing the error of ApplyEntryFn to the caller
ReturnErrorPropagated(cacheErr) == cacheErr

\* the error of the final return: the error of ApplyEntryFn is assigned to the
\* blank identifier, line 79, and nil is returned, line 110
ReturnError(cacheErr) == NoError

(***************************************************************************)
(* State.                                                                  *)
(***************************************************************************)
vars == <<files, cache, query, op, pc, ctxDone, pending, cpending, tsmValues,
          stats, canceled, applyErr, result, err, fileLog, cacheLog, prev,
          configs, cfgPrev, switchName, switchErr, parseOut,
          urmStore, urmList, urmIdx, urmPc, urmErr, urmLog>>

data == <<files, cache, query>>

engineVars == <<data, op, pc, ctxDone, pending, cpending, tsmValues, stats,
                canceled, applyErr, result, err, fileLog, cacheLog, prev>>

configVars == <<configs, cfgPrev, switchName, switchErr, parseOut>>

urmVars == <<urmStore, urmList, urmIdx, urmPc, urmErr, urmLog>>

\* what the storage engine's methods leave alone
other == <<configVars, urmVars>>

\* the config file is not in use
NoConfigs == [n \in {} |-> FALSE]

ZeroConfig ==
    [Name |-> "", Host |-> "", Token |-> "", Org |-> "",
     Active |-> FALSE, PreviousActive |-> FALSE]

\* a reader toml.DecodeReader cannot decode
BadToml == [ok |-> FALSE, doc |-> NoConfigs]

NoParse == [called |-> "none", src |-> BadToml, config |-> ZeroConfig, err |-> NoError]

ConfigUnused ==
    /\ configs = NoConfigs
    /\ cfgPrev = NoConfigs
    /\ switchName = ""
    /\ switchErr = NoError
    /\ parseOut = NoParse

\* the mapping service is not in use
UrmIdle ==
    /\ urmList = <<>>
    /\ urmIdx = 0
    /\ urmPc = "idle"
    /\ urmErr = NoError
    /\ urmLog = <<>>

UrmUnused ==
    /\ urmStore = {}
    /\ UrmIdle

NoPrev == [set |-> FALSE, names |-> <<>>, stats |-> ZeroStats]

QPrefix == Prefix(query.org, query.bucket)

Init ==
    /\ files \in { F \in SUBSET AllFiles : Cardinality(F) <= MaxFiles }
    /\ cache \in { E \in SUBSET AllEntries : Cardinality(E) <= MaxEntries }
    /\ query \in Queries
    /\ op = "none"
    /\ pc = "idle"
    /\ ctxDone = FALSE
    /\ pending = {}
    /\ cpending = {}
    /\ tsmValues = {}
    /\ stats = ZeroStats
    /\ canceled = FALSE
    /\ applyErr = NoError
    /\ result = NilIterator
    /\ err = NoError
    /\ fileLog = {}
    /\ cacheLog = {}
    /\ prev = NoPrev
    /\ ConfigUnused
    /\ UrmUnused

(***************************************************************************)
(* Actions.                                                                *)
(***************************************************************************)
\* the caller cancels the context, at any moment before the call returns
Cancel ==
    /\ pc \in {"idle", "files", "cache"}
    /\ ~ctxDone
    /\ ctxDone' = TRUE
    /\ UNCHANGED <<other, data, op, pc, pending, cpending, tsmValues, stats, canceled,
                   applyErr, result, err, fileLog, cacheLog, prev>>

\* MeasurementNames is entered, lines 23-35
CallMeasurementNames ==
    /\ pc = "idle"
    /\ op' = "MeasurementNames"
    /\ pc' = "files"
    /\ pending' = files
    /\ tsmValues' = {}
    /\ stats' = ZeroStats
    /\ canceled' = FALSE
    /\ UNCHANGED <<other, data, ctxDone, cpending, applyErr, result, err, fileLog,
                   cacheLog, prev>>

\* ForEachFile hands one file to the callback, lines 35-70; on cancellation the
\* callback stops the iteration and the call returns, lines 72-74
VisitFile ==
    /\ pc = "files"
    /\ \E f \in pending :
        IF ctxDone
        THEN /\ canceled' = TRUE
             /\ result' = CanceledReturn(tsmValues, stats)
             /\ err' = ErrCanceled
             /\ pc' = "done"
             /\ UNCHANGED <<pending, tsmValues, stats, fileLog>>
        ELSE LET r == FileFn(tsmValues, stats, f, QPrefix, query.start, query.end)
             IN  /\ tsmValues' = r.tsmValues
                 /\ stats' = r.stats
                 /\ pending' = pending \ {f}
                 /\ fileLog' = fileLog \cup
                        {[file |-> f, overlaps |-> r.overlaps,
                          cursorStats |-> r.cursorStats,
                          added |-> r.tsmValues \ tsmValues]}
                 /\ UNCHANGED <<canceled, result, err, pc>>
    /\ UNCHANGED <<other, data, op, ctxDone, cpending, applyErr, cacheLog, prev>>

\* ForEachFile has visited every file; ApplyEntryFn starts, lines 76-79
FilesDone ==
    /\ pc = "files"
    /\ pending = {}
    /\ pc' = "cache"
    /\ cpending' = cache
    /\ UNCHANGED <<other, data, op, ctxDone, pending, tsmValues, stats, canceled,
                   applyErr, result, err, fileLog, cacheLog, prev>>

\* ApplyEntryFn hands one entry to the callback, lines 79-102
VisitEntry ==
    /\ pc = "cache"
    /\ \E e \in cpending :
        LET r == CacheFn(tsmValues, stats, e, QPrefix, query.start, query.end)
        IN  /\ tsmValues' = r.tsmValues
            /\ stats' = r.stats
            /\ cpending' = cpending \ {e}
            /\ cacheLog' = cacheLog \cup {e}
    /\ UNCHANGED <<other, data, op, pc, ctxDone, pending, canceled, applyErr, result,
                   err, fileLog, prev>>

\* ApplyEntryFn returns, its error is dropped, and the call returns, lines 79, 104-110
Return ==
    /\ pc = "cache"
    /\ cpending = {}
    /\ applyErr' \in {NoError, ErrCache}
    /\ \E vals \in MapKeys(tsmValues) : result' = FinalReturn(vals, stats)
    /\ err' = ReturnError(applyErr')
    /\ pc' = "done"
    /\ UNCHANGED <<other, data, op, ctxDone, pending, cpending, tsmValues, stats,
                   canceled, fileLog, cacheLog, prev>>

\* MeasurementTagValues, lines 121-123
MeasurementTagValues ==
    /\ pc = "idle"
    /\ op' = "MeasurementTagValues"
    /\ result' = NilIterator
    /\ err' = NoError
    /\ pc' = "done"
    /\ UNCHANGED <<other, data, ctxDone, pending, cpending, tsmValues, stats, canceled,
                   applyErr, fileLog, cacheLog, prev>>

\* MeasurementTagKeys, lines 133-135
MeasurementTagKeys ==
    /\ pc = "idle"
    /\ op' = "MeasurementTagKeys"
    /\ result' = NilIterator
    /\ err' = NoError
    /\ pc' = "done"
    /\ UNCHANGED <<other, data, ctxDone, pending, cpending, tsmValues, stats, canceled,
                   applyErr, fileLog, cacheLog, prev>>

Next ==
    \/ Cancel
    \/ CallMeasurementNames
    \/ VisitFile
    \/ FilesDone
    \/ VisitEntry
    \/ Return
    \/ MeasurementTagValues
    \/ MeasurementTagKeys

Spec == Init /\ [][Next]_vars

(***************************************************************************)
(* Repeated calls over unchanged data, with no cancellation.               *)
(***************************************************************************)
\* a second MeasurementNames call is made with the same arguments once the
\* first has returned; the first call's result is kept
CallAgain ==
    /\ pc = "done"
    /\ op = "MeasurementNames"
    /\ err = NoError
    /\ ~prev.set
    /\ prev' = [set |-> TRUE, names |-> result.names, stats |-> result.stats]
    /\ pc' = "files"
    /\ pending' = files
    /\ cpending' = {}
    /\ tsmValues' = {}
    /\ stats' = ZeroStats
    /\ canceled' = FALSE
    /\ applyErr' = NoError
    /\ result' = NilIterator
    /\ fileLog' = {}
    /\ cacheLog' = {}
    /\ UNCHANGED <<other, data, op, ctxDone, err>>

NextRepeat ==
    \/ CallMeasurementNames
    \/ VisitFile
    \/ FilesDone
    \/ VisitEntry
    \/ Return
    \/ CallAgain

SpecRepeat == Init /\ [][NextRepeat]_vars

(***************************************************************************)
(* Properties.                                                             *)
(***************************************************************************)
Range(s) == { s[i] : i \in DOMAIN s }

\* a MeasurementNames call has returned
Done == pc = "done" /\ op = "MeasurementNames"

\* the measurement a composite key carries, empty when none can be extracted
Measurement(k) == ParseMeasurement(SeriesAndFieldFromCompositeKey(k).series)

\* the sum of the cursor statistics of the files visited
RECURSIVE SumCursorStats(_)
SumCursorStats(log) ==
    IF log = {} THEN ZeroStats
    ELSE LET x == CHOOSE y \in log : TRUE
         IN  StatsAdd(x.cursorStats, SumCursorStats(log \ {x}))

\* the names a file holds for the query: those of the keys its cursor yields
\* before the first key outside the prefix, that have data in range
FileNames(f) ==
    IF OverlapsTimeRange(f, query.start, query.end)
       /\ OverlapsKeyPrefixRange(f, QPrefix, QPrefix)
    THEN LET keys == TimeRangeIterator(f, QPrefix)
         IN  { Measurement(keys[i].key) :
                 i \in { n \in DOMAIN keys :
                           /\ \A j \in 1..n : HasPrefix(keys[j].key, QPrefix)
                           /\ HasData(keys[n], query.start, query.end) } } \ {<<>>}
    ELSE {}

SegmentNames == UNION { FileNames(f) : f \in files }

\* the names the cache holds for the query
CacheNames ==
    { Measurement(e.key) :
        e \in { x \in cache : /\ HasPrefix(x.key, QPrefix)
                              /\ ValuesContains(x, query.start, query.end) } } \ {<<>>}

\* the number of times x occurs in the sequence s
Occurrences(s, x) == Cardinality({ i \in DOMAIN s : s[i] = x })

\* the measurements of the keys of a namespace, in any file or in the cache
KeysOfStore ==
    UNION { { f[i].key : i \in DOMAIN f } : f \in files } \cup { e.key : e \in cache }

NamesUnderQuery == { Measurement(k) : k \in { x \in KeysOfStore : HasPrefix(x, QPrefix) } }

NamesUnderOthers == { Measurement(k) : k \in { x \in KeysOfStore : ~HasPrefix(x, QPrefix) } }

\* C1: when MeasurementNames observes cancellation in the file phase, also
\* before any file is visited, it returns a non-nil iterator and a non-nil error.
C1_CanceledReturnsIteratorAndError ==
    (Done /\ canceled) => (~result.nil /\ err # NoError)

\* cancellation was observed before any file was visited
C1_Witness ==
    /\ Done
    /\ canceled
    /\ fileLog = {}
    /\ files # {}

\* C2, as stated: on cancellation the result contains every name recorded
\* from the files visited before cancellation was observed.
C2_CanceledResultHoldsNames ==
    (Done /\ canceled) => (tsmValues \subseteq Range(result.names))

\* C2, amended: on cancellation the result holds no name at all, only the
\* statistics accumulated from the files visited before the cancellation.
C2_CanceledResultIsEmpty ==
    (Done /\ canceled) =>
        /\ result.names = <<>>
        /\ result.stats = SumCursorStats(fileLog)

\* names had been recorded when the cancellation was observed
C2_Witness ==
    /\ Done
    /\ canceled
    /\ tsmValues # {}
    /\ result.stats # ZeroStats

\* C3, as stated: MeasurementNames never returns a nil error when the cache
\* enumeration returned an error.
C3_CacheErrorPropagated ==
    (Done /\ applyErr # NoError) => err # NoError

\* C3, amended: the error of the cache enumeration is dropped; the call
\* returns a non-nil error exactly when it observed cancellation, and returns
\* a nil error and an iterator when the cache enumeration returned an error.
C3_CacheErrorDropped ==
    Done =>
        /\ (err # NoError) <=> canceled
        /\ applyErr # NoError => (err = NoError /\ ~result.nil)

\* the cache enumeration returned an error after visiting entries
C3_Witness ==
    /\ Done
    /\ applyErr # NoError
    /\ cacheLog # {}

\* C4: MeasurementTagKeys and MeasurementTagValues return a non-nil iterator
\* whenever the error returned is nil.
C4_TagIteratorNotNil ==
    (pc = "done" /\ op \in {"MeasurementTagKeys", "MeasurementTagValues"}
       /\ err = NoError) => ~result.nil

\* C5, as stated: a repeated call over unchanged data, with no cancellation,
\* returns the same names and the same statistics, whatever the enumeration
\* orders of the two calls.
C5_RepeatSameNamesAndStats ==
    (Done /\ prev.set /\ err = NoError) =>
        /\ result.names = prev.names
        /\ result.stats = prev.stats

\* C5, amended: a repeated call over unchanged data, with no cancellation,
\* returns the same sequence of names, whatever the enumeration orders; the
\* statistics depend on the orders.
C5_RepeatSameNames ==
    (Done /\ prev.set /\ err = NoError) => result.names = prev.names

\* the second call enumerated in another order, seen in its statistics, and
\* returned several names
C5_Witness ==
    /\ Done
    /\ prev.set
    /\ err = NoError
    /\ result.stats # prev.stats
    /\ Len(result.names) >= 2

\* C6: when cancellation is observed in the file phase, no cache entry is
\* visited and the statistics returned are exactly the sum of the cursor
\* statistics of the files processed before.
C6_CanceledSkipsCache ==
    (Done /\ canceled) =>
        /\ cacheLog = {}
        /\ result.stats = SumCursorStats(fileLog)

\* a file with cost had been processed and the cache held entries of the
\* namespace when the cancellation was observed
C6_Witness ==
    /\ Done
    /\ canceled
    /\ \E x \in fileLog : x.cursorStats # ZeroStats
    /\ \E e \in cache : HasPrefix(e.key, QPrefix) /\ Measurement(e.key) # <<>>

\* C7: the names of a call that is not cancelled are exactly the non-empty
\* measurements found in range in the files or in the cache.
C7_NamesAreExactlyThoseFound ==
    (Done /\ ~canceled) => Range(result.names) = SegmentNames \cup CacheNames

\* files {c, m} and {d} and a cache entry for c give [c, d, m]
C7_Witness ==
    /\ Done
    /\ ~canceled
    /\ files = {FileA, FileB}
    /\ CacheEntry(CompositeKey(NsMid, NameC, FieldF), {2}) \in cache
    /\ result.names = <<NameC, NameD, NameM>>

\* C8: a measurement found in a file and in the cache, in several files or
\* in several cache entries occurs exactly once in the names returned.
C8_FoundOnce ==
    (Done /\ ~canceled) =>
        /\ \A m \in SegmentNames \cup CacheNames : Occurrences(result.names, m) = 1
        /\ \A i, j \in DOMAIN result.names :
              result.names[i] = result.names[j] => i = j

\* a measurement was found in a file and in the cache, and another in two files
C8_Witness ==
    /\ Done
    /\ ~canceled
    /\ \/ SegmentNames \cap CacheNames # {}
       \/ \E f, g \in files : f # g /\ FileNames(f) \cap FileNames(g) # {}

\* C9: the names of a successful call are strictly ascending in byte order.
C9_StrictlyAscending ==
    (Done /\ err = NoError) =>
        \A i \in 1..(Len(result.names) - 1) :
            BytesLess(result.names[i], result.names[i + 1])

\* three names were returned, one of them a prefix of another
C9_Witness ==
    /\ Done
    /\ err = NoError
    /\ Len(result.names) >= 3
    /\ {NameC, NameCM} \subseteq Range(result.names)

\* C10: a call never returns a measurement that exists only under keys of
\* another namespace, in a file or in the cache.
C10_NamespaceIsolation ==
    Done => \A m \in Range(result.names) : m \in NamesUnderQuery

\* a file that mixes the namespaces was scanned and the cache held a key of
\* another namespace, each with a measurement the query's namespace lacks
C10_Witness ==
    /\ Done
    /\ ~canceled
    /\ result.names # <<>>
    /\ \E x \in fileLog :
          /\ x.overlaps
          /\ \E n \in DOMAIN x.file :
                LET k == x.file[n].key
                IN  ~HasPrefix(k, QPrefix) /\ Measurement(k) \notin NamesUnderQuery
    /\ \E e \in cacheLog :
          /\ ~HasPrefix(e.key, QPrefix)
          /\ Measurement(e.key) \notin NamesUnderQuery

\* the keys of the namespace of the query that carry a measurement, with the
\* timestamps of their values: those of the files and those of the cache
FileSeries ==
    UNION { { [name |-> Measurement(f[i].key), times |-> f[i].times] :
                i \in { n \in DOMAIN f : HasPrefix(f[n].key, QPrefix) } } :
            f \in files }

CacheSeries ==
    { [name |-> Measurement(e.key), times |-> e.values] :
        e \in { x \in cache : HasPrefix(x.key, QPrefix) } }

\* the timestamps of the values a source holds for measurement m
FileValuesOf(m) == UNION { x.times : x \in { y \in FileSeries : y.name = m } }

CacheValuesOf(m) == UNION { x.times : x \in { y \in CacheSeries : y.name = m } }

ValuesOf(m) == FileValuesOf(m) \cup CacheValuesOf(m)

InWindow(t) == query.start < t /\ t <= query.end

\* C11: the window is (start, end]: a measurement whose values all lie
\* outside it is left out, one with a value at exactly end is returned, one
\* whose only value is at exactly start is left out, in files and in the cache.
C11_WindowOpenAtStartClosedAtEnd ==
    (Done /\ ~canceled) =>
        /\ \A m \in Range(result.names) :
              /\ \E t \in ValuesOf(m) : InWindow(t)
              /\ ValuesOf(m) # {query.start}
        /\ \A x \in FileSeries \cup CacheSeries :
              (x.name # <<>> /\ query.end \in x.times) => x.name \in Range(result.names)

\* a file held a measurement only at start and one at end, the cache held a
\* measurement only at start, and a measurement had only values outside
C11_Witness ==
    /\ Done
    /\ ~canceled
    /\ \E m \in NamesUnderQuery \ {<<>>} :
          FileValuesOf(m) = {query.start} /\ CacheValuesOf(m) = {}
    /\ \E m \in NamesUnderQuery \ {<<>>} :
          CacheValuesOf(m) = {query.start} /\ FileValuesOf(m) = {}
    /\ \E m \in NamesUnderQuery \ {<<>>} : query.end \in FileValuesOf(m)
    /\ \E m \in NamesUnderQuery \ {<<>>} :
          ValuesOf(m) # {} /\ \A t \in ValuesOf(m) : t < query.start \/ t > query.end

\* a key of the namespace of the query from which no measurement can be
\* extracted: it has no separator or its measurement is empty
Malformed(k) == HasPrefix(k, QPrefix) /\ Measurement(k) = <<>>

\* the positions in file f of the well-formed keys of the namespace that have
\* data in the window and come after a malformed key
AfterMalformed(f) ==
    { n \in DOMAIN f :
        /\ HasPrefix(f[n].key, QPrefix)
        /\ Measurement(f[n].key) # <<>>
        /\ HasData(f[n], query.start, query.end)
        /\ \E j \in 1..(n - 1) : Malformed(f[j].key) }

\* C12: a key without a measurement, in a file or in the cache, is skipped:
\* the keys after it are still read, no error is returned because of it and
\* the empty string is never among the names.
C12_MalformedKeySkipped ==
    /\ <<>> \notin tsmValues
    /\ \A x \in fileLog :
          x.overlaps =>
              \A n \in AfterMalformed(x.file) : Measurement(x.file[n].key) \in tsmValues
    /\ (Done /\ ~canceled) =>
          /\ err = NoError
          /\ cacheLog = cache
          /\ <<>> \notin Range(result.names)
          /\ CacheNames \subseteq Range(result.names)

\* a scanned file held a key without separator before a key that was then
\* recorded, another file a key with an empty measurement, and the cache a
\* malformed key beside a key that was returned
C12_Witness ==
    /\ Done
    /\ ~canceled
    /\ \E x \in fileLog :
          \E n \in AfterMalformed(x.file) :
              /\ Measurement(x.file[n].key) \in x.added
              /\ \E j \in 1..(n - 1) :
                    Malformed(x.file[j].key) /\ IndexOfSep(x.file[j].key, 1) = 0
    /\ \E x \in fileLog :
          /\ x.overlaps
          /\ \E j \in DOMAIN x.file :
                Malformed(x.file[j].key) /\ IndexOfSep(x.file[j].key, 1) # 0
    /\ \E e \in cacheLog : Malformed(e.key)
    /\ \E e \in cacheLog :
          Measurement(e.key) # <<>> /\ Measurement(e.key) \in Range(result.names)


\* what the cache phase charges for an entry
EntryCharge(e) ==
    [ScannedValues |-> ValuesLen(e), ScannedBytes |-> 8 * ValuesLen(e)]

\* the entry's key has the prefix and carries a measurement
Chargeable(e) == HasPrefix(e.key, QPrefix) /\ Measurement(e.key) # <<>>

\* C16 as claimed: in the cache phase every entry whose key has the prefix and
\* yields a non-empty measurement adds its value count to ScannedValues and 8
\* times its value count to ScannedBytes, also when its measurement was
\* already found or it does not contain the time range
C16_EveryEntryCharged ==
    [][ pc = "cache" =>
          \A e \in cpending \ cpending' :
              Chargeable(e) => stats' = StatsAdd(stats, EntryCharge(e)) ]_vars

\* C16: in the cache phase an entry whose key has the prefix and yields a
\* non-empty measurement that is not yet found adds its value count to
\* ScannedValues and 8 times its value count to ScannedBytes, whether or not
\* it contains the time range; every other entry leaves the statistics alone
C16_EntryChargedUnlessFound ==
    [][ pc = "cache" =>
          \A e \in cpending \ cpending' :
              IF Chargeable(e) /\ Measurement(e.key) \notin tsmValues
              THEN stats' = StatsAdd(stats, EntryCharge(e))
              ELSE stats' = stats ]_vars

\* file {c, m} found c; the cache entry of c was skipped free of charge, the
\* entry of d, holding nothing in range, was charged for its one value
C16_Witness ==
    /\ Done
    /\ ~canceled
    /\ query.org = NsMid.org
    /\ files = {FileA}
    /\ cache = { CacheEntry(CompositeKey(NsMid, NameC, FieldG), {0, 4}),
                 CacheEntry(CompositeKey(NsMid, NameD, FieldF), {1}) }
    /\ cacheLog = cache
    /\ result.names = <<NameC, NameM>>
    /\ result.stats = StatsAdd(SumCursorStats(fileLog),
                               [ScannedValues |-> 1, ScannedBytes |-> 8])

PassesOverlap(f) ==
    /\ OverlapsTimeRange(f, query.start, query.end)
    /\ OverlapsKeyPrefixRange(f, QPrefix, QPrefix)

\* C18: in the file phase every visited file passing both overlap tests adds
\* its cursor's statistics to the running total exactly once, whether or not
\* it gave a name and however its key loop ended; a file failing a test adds
\* nothing to the statistics and gives no name
C18_CursorStatsAddedOnce ==
    /\ \A x \in fileLog :
        IF PassesOverlap(x.file)
        THEN x.overlaps
        ELSE ~x.overlaps /\ x.cursorStats = ZeroStats /\ x.added = {}
    /\ (pc = "files" \/ (pc = "cache" /\ cacheLog = {})) =>
        stats = SumCursorStats({ x \in fileLog : PassesOverlap(x.file) })

\* FileC passed both tests, looked at one key without data in range, stopped
\* at the key of another namespace and gave no name; FileE failed the prefix
\* test
C18_Witness ==
    /\ pc = "cache"
    /\ cacheLog = {}
    /\ query.org = NsMid.org
    /\ files = {FileC, FileE}
    /\ \E x \in fileLog :
        /\ x.file = FileC
        /\ x.overlaps
        /\ x.added = {}
        /\ x.cursorStats = [ScannedValues |-> 1, ScannedBytes |-> 8]
    /\ \E x \in fileLog : x.file = FileE /\ ~x.overlaps
    /\ tsmValues = {}
    /\ stats = [ScannedValues |-> 1, ScannedBytes |-> 8]

(***************************************************************************)
(* The influx command's configs, cmd/influx/config/config.go.              *)
(***************************************************************************)
MaxConfigs == 3

AllConfigNames == <<"a1", "a2", "a3", "a4">>

ConfigNames == { AllConfigNames[i] : i \in 1..Min2(MaxConfigs, Len(AllConfigNames)) }

\* a name no config has
MissingName == "p1"

HostOf(n) ==
    CASE n = "a1" -> "host1"
      [] n = "a2" -> "host2"
      [] n = "a3" -> "host3"
      [] OTHER -> "host4"

\* type Config, lines 16-24
Config(n, a, p) ==
    [Name |-> n, Host |-> HostOf(n), Token |-> "", Org |-> "",
     Active |-> a, PreviousActive |-> p]

\* var DefaultConfig, lines 27-31
DefaultConfig ==
    [Name |-> "default", Host |-> "http://localhost:9999", Token |-> "",
     Org |-> "", Active |-> TRUE, PreviousActive |-> FALSE]

ENotFound == "not found"

EConflict == "conflict"

ErrToml == "toml: cannot decode"

\* every Configs map over the names
AllConfigs ==
    UNION { [ N -> BOOLEAN \X BOOLEAN ] : N \in SUBSET ConfigNames }

ConfigsOf(f) == [n \in DOMAIN f |-> Config(n, f[n][1], f[n][2])]

SwitchKeepPrevious(pp, name) ==
    IF name \notin DOMAIN pp
    THEN pp
    ELSE [k \in DOMAIN pp |-> [pp[k] EXCEPT !.Active = (k = name)]]

SwitchIgnoreMissing(pp, name) ==
    [k \in DOMAIN pp |->
        [pp[k] EXCEPT !.PreviousActive = pp[k].Active, !.Active = (k = name)]]

SwitchAdditive(pp, name) ==
    IF name \notin DOMAIN pp
    THEN pp
    ELSE [k \in DOMAIN pp |->
            [pp[k] EXCEPT !.PreviousActive = pp[k].Active,
                          !.Active = (pp[k].Active \/ k = name)]]

\* the map Switch leaves behind, lines 43-58
SwitchConfigs(pp, name) ==
    IF name \notin DOMAIN pp
    THEN pp
    ELSE [k \in DOMAIN pp |->
            [pp[k] EXCEPT !.PreviousActive = pp[k].Active, !.Active = (k = name)]]

\* the error Switch returns, lines 45-51 and 57
SwitchError(pp, name) ==
    IF name \notin DOMAIN pp THEN ENotFound ELSE NoError

\* what is on file for a Configs map: Name carries the tag toml:"-", line 17
TomlOf(pp) == [ok |-> TRUE, doc |-> [n \in DOMAIN pp |-> [pp[n] EXCEPT !.Name = ""]]]

\* ParseConfigs, lines 140-148
ParseConfigs(src) ==
    IF ~src.ok
    THEN [configs |-> NoConfigs, err |-> ErrToml]
    ELSE [configs |-> [n \in DOMAIN src.doc |-> [src.doc[n] EXCEPT !.Name = n]],
          err |-> NoError]

RECURSIVE ActiveLoopLastWins(_, _, _, _, _, _)
ActiveLoopLastWins(pp, order, i, currentOrPrevious, activated, hasActive) ==
    IF i > Len(order)
    THEN IF hasActive
         THEN [config |-> activated, err |-> NoError]
         ELSE [config |-> DefaultConfig, err |-> ENotFound]
    ELSE LET p == pp[order[i]]
             check == IF currentOrPrevious THEN p.Active ELSE p.PreviousActive
         IN  IF check
             THEN ActiveLoopLastWins(pp, order, i + 1, currentOrPrevious, p, TRUE)
             ELSE ActiveLoopLastWins(pp, order, i + 1, currentOrPrevious,
                                     activated, hasActive)

\* the loop of parseActiveConfig over the map in the order Go hands it out,
\* lines 171-186, and the returns after it, lines 187-193
RECURSIVE ActiveLoop(_, _, _, _, _, _)
ActiveLoop(pp, order, i, currentOrPrevious, activated, hasActive) ==
    IF i > Len(order)
    THEN IF hasActive
         THEN [config |-> activated, err |-> NoError]
         ELSE [config |-> DefaultConfig, err |-> ENotFound]
    ELSE LET p == pp[order[i]]
             check == IF currentOrPrevious THEN p.Active ELSE p.PreviousActive
         IN  IF check /\ ~hasActive
             THEN ActiveLoop(pp, order, i + 1, currentOrPrevious, p, TRUE)
             ELSE IF check
                  THEN [config |-> DefaultConfig, err |-> EConflict]
                  ELSE ActiveLoop(pp, order, i + 1, currentOrPrevious,
                                  activated, hasActive)

\* parseActiveConfig, lines 160-193
parseActiveConfig(src, order, currentOrPrevious) ==
    LET r == ParseConfigs(src)
    IN  IF r.err # NoError
        THEN [config |-> DefaultConfig, err |-> r.err]
        ELSE ActiveLoop(r.configs, order, 1, currentOrPrevious, ZeroConfig, FALSE)

\* the storage engine is not in use
EngineUnused ==
    /\ files = {}
    /\ cache = {}
    /\ query = [org |-> NsMid.org, bucket |-> NsMid.bucket, start |-> 1, end |-> 3]
    /\ op = "none"
    /\ pc = "idle"
    /\ ctxDone = FALSE
    /\ pending = {}
    /\ cpending = {}
    /\ tsmValues = {}
    /\ stats = ZeroStats
    /\ canceled = FALSE
    /\ applyErr = NoError
    /\ result = NilIterator
    /\ err = NoError
    /\ fileLog = {}
    /\ cacheLog = {}
    /\ prev = NoPrev

\* any set of configs, whatever flags they carry
InitConfig ==
    /\ EngineUnused
    /\ UrmUnused
    /\ configs \in { ConfigsOf(f) : f \in AllConfigs }
    /\ cfgPrev = configs
    /\ switchName = ""
    /\ switchErr = NoError
    /\ parseOut = NoParse

\* Configs.Switch, lines 43-58; parseOut describes the file as it stands, and
\* the file is rewritten after a Switch
Switch ==
    /\ \E name \in ConfigNames \cup {MissingName} :
        /\ cfgPrev' = configs
        /\ switchName' = name
        /\ configs' = SwitchConfigs(configs, name)
        /\ switchErr' = SwitchError(configs, name)
    /\ parseOut' = NoParse
    /\ UNCHANGED <<engineVars, urmVars>>

\* ParseActiveConfig, lines 156-158, on the file as it stands
ParseActiveConfig ==
    /\ \E src \in {TomlOf(configs), BadToml} :
       \E order \in MapKeys(DOMAIN ParseConfigs(src).configs) :
        LET r == parseActiveConfig(src, order, TRUE)
        IN  parseOut' = [called |-> "active", src |-> src,
                         config |-> r.config, err |-> r.err]
    /\ UNCHANGED <<engineVars, urmVars, configs, cfgPrev, switchName, switchErr>>

\* ParsePreviousActive, lines 151-153, on the file as it stands
ParsePreviousActive ==
    /\ \E src \in {TomlOf(configs), BadToml} :
       \E order \in MapKeys(DOMAIN ParseConfigs(src).configs) :
        LET r == parseActiveConfig(src, order, FALSE)
        IN  parseOut' = [called |-> "previous", src |-> src,
                         config |-> r.config, err |-> r.err]
    /\ UNCHANGED <<engineVars, urmVars, configs, cfgPrev, switchName, switchErr>>

NextConfig ==
    \/ Switch
    \/ ParseActiveConfig
    \/ ParsePreviousActive

SpecConfig == InitConfig /\ [][NextConfig]_vars

\* sets of configs that carry at most one Active and one PreviousActive flag
ActiveOf(pp) == { n \in DOMAIN pp : pp[n].Active }

PreviousActiveOf(pp) == { n \in DOMAIN pp : pp[n].PreviousActive }

InitConfigValid ==
    /\ InitConfig
    /\ Cardinality(ActiveOf(configs)) <= 1
    /\ Cardinality(PreviousActiveOf(configs)) <= 1

SpecConfigValid == InitConfigValid /\ [][NextConfig]_vars

(***************************************************************************)
(* Properties of the configs.                                              *)
(***************************************************************************)
Switched == switchName # ""

\* C13: after Switch(name) succeeds for an existing name, the config called
\* name is the only one with Active set, every config's PreviousActive equals
\* the Active it had before the call, and no other field and no key changes
C13_SwitchPostcondition ==
    (Switched /\ switchErr = NoError) =>
        /\ switchName \in DOMAIN cfgPrev
        /\ DOMAIN configs = DOMAIN cfgPrev
        /\ ActiveOf(configs) = {switchName}
        /\ \A k \in DOMAIN configs :
            /\ configs[k].PreviousActive = cfgPrev[k].Active
            /\ configs[k].Name = cfgPrev[k].Name
            /\ configs[k].Host = cfgPrev[k].Host
            /\ configs[k].Token = cfgPrev[k].Token
            /\ configs[k].Org = cfgPrev[k].Org

C13_Witness ==
    /\ Switched
    /\ switchErr = NoError
    /\ Cardinality(DOMAIN configs) = 3
    /\ ~cfgPrev[switchName].Active
    /\ \E k \in DOMAIN cfgPrev \ {switchName} :
        cfgPrev[k].Active /\ ~cfgPrev[k].PreviousActive
    /\ \E k \in DOMAIN cfgPrev \ {switchName} :
        ~cfgPrev[k].Active /\ cfgPrev[k].PreviousActive
    /\ Cardinality(PreviousActiveOf(configs)) = 1

\* C14: Switch(name) for a name that is not a key returns a not-found error
\* and leaves every config's Active and PreviousActive as they were
C14_SwitchMissingChangesNothing ==
    /\ (Switched /\ switchName \notin DOMAIN cfgPrev) =>
            switchErr = ENotFound /\ configs = cfgPrev
    /\ (Switched /\ switchErr = ENotFound) =>
            switchName \notin DOMAIN cfgPrev /\ configs = cfgPrev

C14_Witness ==
    /\ Switched
    /\ switchErr = ENotFound
    /\ switchName \notin DOMAIN configs
    /\ \E k \in DOMAIN configs : configs[k].Active /\ ~configs[k].PreviousActive
    /\ \E k \in DOMAIN configs : ~configs[k].Active /\ configs[k].PreviousActive

Flagged(called, src) ==
    { n \in DOMAIN src.doc :
        IF called = "active" THEN src.doc[n].Active ELSE src.doc[n].PreviousActive }

Parsed == parseOut.called # "none" /\ parseOut.src.ok

\* C15: over a parsed set of configs ParseActiveConfig (ParsePreviousActive)
\* returns the one config flagged Active (PreviousActive) with Name set to its
\* key when exactly one is flagged, a not-found error when none is, and a
\* conflict error when more than one is, whatever the order the map is walked
\* in; with either error the config returned is DefaultConfig
C15_ParseActiveOutcome ==
    Parsed =>
        LET flagged == Flagged(parseOut.called, parseOut.src)
        IN  /\ Cardinality(flagged) = 1 =>
                /\ parseOut.err = NoError
                /\ \A n \in flagged :
                    parseOut.config = [parseOut.src.doc[n] EXCEPT !.Name = n]
            /\ flagged = {} =>
                parseOut.err = ENotFound /\ parseOut.config = DefaultConfig
            /\ Cardinality(flagged) > 1 =>
                parseOut.err = EConflict /\ parseOut.config = DefaultConfig

C15_Witness ==
    /\ Parsed
    /\ parseOut.called = "previous"
    /\ Cardinality(DOMAIN parseOut.src.doc) = 3
    /\ Cardinality(Flagged("previous", parseOut.src)) = 2
    /\ Cardinality(Flagged("active", parseOut.src)) = 1
    /\ parseOut.err = EConflict
    /\ parseOut.config = DefaultConfig

\* C19: starting from configs with at most one Active and at most one
\* PreviousActive, after any sequence of Switch calls, failed ones included,
\* at most one config is Active and at most one is PreviousActive, so neither
\* parse reports a conflict
C19_AtMostOneFlagged ==
    /\ Cardinality(ActiveOf(configs)) <= 1
    /\ Cardinality(PreviousActiveOf(configs)) <= 1
    /\ Parsed => parseOut.err # EConflict

C19_Witness ==
    /\ Switched
    /\ switchErr = NoError
    /\ Cardinality(DOMAIN configs) = 3
    /\ PreviousActiveOf(cfgPrev) # {}
    /\ ActiveOf(cfgPrev) # {}
    /\ PreviousActiveOf(cfgPrev) # ActiveOf(cfgPrev)
    /\ switchName \notin ActiveOf(cfgPrev) \cup PreviousActiveOf(cfgPrev)
    /\ parseOut.called = "previous"
    /\ parseOut.err = NoError
    /\ parseOut.config.Name \in ActiveOf(cfgPrev)

(***************************************************************************)
(* AuthedURMService.DeleteUserResourceMapping, package tenant.             *)
(***************************************************************************)
MaxUrms == 3

ResourceIDs == {1, 2}

UserIDs == {1, 2}

ResourceTypeOf(r) == IF r = 1 THEN "buckets" ELSE "dashboards"

\* influxdb.UserResourceMapping; the underlying service keys a mapping by its
\* resource and its user
AllUrms ==
    { [ResourceID |-> r, UserID |-> u, ResourceType |-> ResourceTypeOf(r)] :
        r \in ResourceIDs, u \in UserIDs }

\* the slices the underlying FindUserResourceMappings may return for the
\* filter: mappings of the store, each once, in any order
FoundLists(store) ==
    { l \in UNION { [1..k -> store] : k \in 0..MaxUrms } :
        \A i, j \in DOMAIN l : i # j => l[i] # l[j] }

ErrFind == "find failed"

ErrLookup == "organization not found"

ErrAuth == "unauthorized"

ErrDelete == "delete failed"

Call(name, urm, e) == [call |-> name, urm |-> urm, err |-> e]

NoUrm == [ResourceID |-> 0, UserID |-> 0, ResourceType |-> ""]

\* the loop body deleting before it asks for authorization
LoopBodyDeleteFirst(store, urm, lookupErr, authErr, deleteErr) ==
    IF lookupErr # NoError
    THEN [store |-> store, err |-> lookupErr,
          calls |-> <<Call("FindResourceOrganizationID", urm, lookupErr)>>]
    ELSE IF deleteErr # NoError
    THEN [store |-> store, err |-> deleteErr,
          calls |-> <<Call("FindResourceOrganizationID", urm, NoError),
                      Call("DeleteUserResourceMapping", urm, deleteErr)>>]
    ELSE IF authErr # NoError
    THEN [store |-> store \ {urm}, err |-> authErr,
          calls |-> <<Call("FindResourceOrganizationID", urm, NoError),
                      Call("DeleteUserResourceMapping", urm, NoError),
                      Call("AuthorizeWrite", urm, authErr)>>]
    ELSE [store |-> store \ {urm}, err |-> NoError,
          calls |-> <<Call("FindResourceOrganizationID", urm, NoError),
                      Call("DeleteUserResourceMapping", urm, NoError),
                      Call("AuthorizeWrite", urm, NoError)>>]

\* one round of the loop over urms, lines 52-62: what it calls, what is left
\* in the underlying service and the error it ends the call with, given what
\* the collaborators answer
LoopBody(store, urm, lookupErr, authErr, deleteErr) ==
    IF lookupErr # NoError
    THEN [store |-> store, err |-> lookupErr,
          calls |-> <<Call("FindResourceOrganizationID", urm, lookupErr)>>]
    ELSE IF authErr # NoError
    THEN [store |-> store, err |-> authErr,
          calls |-> <<Call("FindResourceOrganizationID", urm, NoError),
                      Call("AuthorizeWrite", urm, authErr)>>]
    ELSE IF deleteErr # NoError
    THEN [store |-> store, err |-> deleteErr,
          calls |-> <<Call("FindResourceOrganizationID", urm, NoError),
                      Call("AuthorizeWrite", urm, NoError),
                      Call("DeleteUserResourceMapping", urm, deleteErr)>>]
    ELSE [store |-> store \ {urm}, err |-> NoError,
          calls |-> <<Call("FindResourceOrganizationID", urm, NoError),
                      Call("AuthorizeWrite", urm, NoError),
                      Call("DeleteUserResourceMapping", urm, NoError)>>]

InitUrm ==
    /\ EngineUnused
    /\ ConfigUnused
    /\ urmStore \in SUBSET AllUrms
    /\ UrmIdle

\* DeleteUserResourceMapping is entered and asks the underlying service for
\* the mappings, lines 45-50
CallDelete ==
    /\ urmPc = "idle"
    /\ \E findErr \in {NoError, ErrFind} :
        IF findErr # NoError
        THEN /\ urmErr' = findErr
             /\ urmPc' = "done"
             /\ urmLog' = <<Call("FindUserResourceMappings", NoUrm, findErr)>>
             /\ UNCHANGED <<urmList, urmIdx>>
        ELSE \E l \in FoundLists(urmStore) :
             /\ urmList' = l
             /\ urmIdx' = 1
             /\ urmPc' = "loop"
             /\ urmLog' = <<Call("FindUserResourceMappings", NoUrm, NoError)>>
             /\ UNCHANGED urmErr
    /\ UNCHANGED <<engineVars, configVars, urmStore>>

\* one round of the loop, lines 52-62; an error returns from the call
DeleteStep ==
    /\ urmPc = "loop"
    /\ urmIdx <= Len(urmList)
    /\ \E lookupErr \in {NoError, ErrLookup}, authErr \in {NoError, ErrAuth},
          deleteErr \in {NoError, ErrDelete} :
        LET r == LoopBody(urmStore, urmList[urmIdx], lookupErr, authErr, deleteErr)
        IN  /\ urmStore' = r.store
            /\ urmLog' = urmLog \o r.calls
            /\ urmErr' = r.err
            /\ IF r.err # NoError
               THEN urmPc' = "done" /\ UNCHANGED urmIdx
               ELSE urmIdx' = urmIdx + 1 /\ UNCHANGED urmPc
    /\ UNCHANGED <<engineVars, configVars, urmList>>

\* the loop is over, the call returns nil, line 64
DeleteReturn ==
    /\ urmPc = "loop"
    /\ urmIdx > Len(urmList)
    /\ urmPc' = "done"
    /\ urmErr' = NoError
    /\ UNCHANGED <<engineVars, configVars, urmStore, urmList, urmIdx, urmLog>>

NextUrm ==
    \/ CallDelete
    \/ DeleteStep
    \/ DeleteReturn

SpecUrm == InitUrm /\ [][NextUrm]_vars

(***************************************************************************)
(* Properties of DeleteUserResourceMapping.                                *)
(***************************************************************************)
\* the mappings the underlying service was told to delete, and did
Deleted ==
    { urmLog[i].urm :
        i \in { n \in DOMAIN urmLog : /\ urmLog[n].call = "DeleteUserResourceMapping"
                                      /\ urmLog[n].err = NoError } }

\* the mappings the loop has looked up, in the order of the calls
LookedUp ==
    LET lookups == SelectSeq(urmLog, LAMBDA c : c.call = "FindResourceOrganizationID")
    IN  [i \in DOMAIN lookups |-> lookups[i].urm]

\* C20: DeleteUserResourceMapping asks the underlying service to delete a
\* mapping only after the organization lookup and the write authorization of
\* that mapping succeeded, takes the found mappings in order, and after the
\* first failing lookup, authorization or delete returns that error and
\* deletes no further mapping, while the mappings deleted before stay deleted
C20_DeleteAfterAuthorization ==
    /\ \A i \in DOMAIN urmLog :
        urmLog[i].call = "DeleteUserResourceMapping" =>
            /\ i > 2
            /\ urmLog[i - 2] = Call("FindResourceOrganizationID", urmLog[i].urm, NoError)
            /\ urmLog[i - 1] = Call("AuthorizeWrite", urmLog[i].urm, NoError)
    /\ Len(LookedUp) <= Len(urmList)
    /\ \A i \in DOMAIN LookedUp : LookedUp[i] = urmList[i]
    /\ \A i \in DOMAIN urmLog :
        urmLog[i].err # NoError =>
            /\ i = Len(urmLog)
            /\ urmPc = "done"
            /\ urmErr = urmLog[i].err
    /\ Deleted \cap urmStore = {}
    /\ \A i \in DOMAIN urmList : urmList[i] \notin Deleted => urmList[i] \in urmStore
    /\ (urmPc = "done" /\ urmErr = NoError) => Deleted = Range(urmList)

\* of three mappings found the first was deleted, the second was refused and
\* the third was left alone
C20_Witness ==
    /\ urmPc = "done"
    /\ urmErr = ErrAuth
    /\ Len(urmList) = 3
    /\ Deleted = {urmList[1]}
    /\ urmList[2] \in urmStore
    /\ urmList[3] \in urmStore
    /\ urmLog[Len(urmLog)] = Call("AuthorizeWrite", urmList[2], ErrAuth)

====
